---- MODULE Spec2Model ----
(***************************************************************************)
(* Sale / refund transaction engine of the pharmacy management system:     *)
(* SalesService (processSale, processRefund, deleteSale) over the Sale,    *)
(* SaleItem, Medicine and Customer models, run by concurrent requests      *)
(* against one MySQL (InnoDB) database through Sequelize.                  *)
(*                                                                         *)
(* Money is kept in hundredths of a TND (the two decimals of toFixed(2)    *)
(* and of DECIMAL(12, 2)).                                                 *)
(***************************************************************************)
EXTENDS Integers, Sequences, FiniteSets, TLC

VARIABLES
    stock,      \* Medicine.stockQuantity of every medicine row (committed)
    sales,      \* committed rows of table sales, with their sale_items
    cust,       \* Customer.loyaltyPoints / totalPurchases (committed)
    calls,      \* number of service calls started so far
    loc         \* per request: position in the handler and its locals

vars == <<stock, sales, cust, calls, loc>>

-----------------------------------------------------------------------------
(* Bounds of the model *)

Procs == {1, 2}          \* concurrent requests
Meds == {1, 2}           \* medicine ids
Custs == {1}             \* customer ids
InitStock == 1           \* stockQuantity of every medicine at the start
MaxQty == 1              \* largest quantity of a request line
MaxCalls == 2            \* service calls started in one behaviour of Spec
MaxSeqCalls == 3         \* service calls started in one behaviour of SeqSpec

(* Program constants *)

TaxRatePct == 18         \* taxRate = 0.18
PointsDivisor == 10      \* 1 point per 10 TND
TimestampMod == 10000    \* Date.now().toString().slice(-4)
Cent == 100              \* hundredths per TND: toFixed(2)

NoCustomer == 0          \* customerId absent from the request
UnknownCustomer == 2     \* an id that is no active customer's
UnknownMedicine == 3     \* an id that is no active medicine's
NoAmount == -1           \* amount = null in processRefund
NoPrice == -1            \* unitPrice absent from a request line

(* Medicine.sellingPrice, in hundredths *)
sellingPrice == [m \in Meds |-> 1000 * m]

(* Values of Date.now() a call may read, in milliseconds; 0 and 10000 agree
   in their last four digits.  Only the equality of the sale numbers made
   from them matters, so the readings are not ordered. *)
Times == {0, 1, 10000}

-----------------------------------------------------------------------------
(* Pure helpers *)

RECURSIVE SumSeq(_)
SumSeq(s) == IF s = <<>> THEN 0 ELSE Head(s) + SumSeq(Tail(s))

Max(a, b) == IF a >= b THEN a ELSE b

(* JavaScript numbers.  A Number is an IEEE 754 double: a sign and a
   magnitude of at most 53 significant bits.  The magnitude is kept as the
   natural number mag with value mag / 2^FractionBits, written as a sequence
   of digits of 15 bits, least significant first and without leading zero
   (<<>> is 0), so that no integer of the model exceeds 2^31.  The amounts
   of the model lie between 2^-22 and 2^53, where every double is such a
   number. *)

LimbBits == 15          \* bits of one digit
Base == 32768           \* 2^LimbBits
SignificandBits == 53   \* precision of a double
FractionLimbs == 5      \* FractionBits / LimbBits
FractionBits == 75      \* binary places kept by mag

(* The element of a set of one element.  Only({e : a \in {x}}) is the value
   of e for the value of x: the operands of a JavaScript operator or call
   are evaluated once, before it is applied. *)
Only(S) == CHOOSE r \in S : TRUE

Pow2(k) == 2 ^ k

RECURSIVE Norm(_)
Norm(x) ==
    Only({IF a = <<>> \/ a[Len(a)] # 0 THEN a
          ELSE Norm(SubSeq(a, 1, Len(a) - 1))
          : a \in {x}})

RECURSIVE LimbsOf(_)
LimbsOf(n) == IF n = 0 THEN <<>> ELSE <<n % Base>> \o LimbsOf(n \div Base)

RECURSIVE NatOf(_)
NatOf(x) ==
    Only({IF a = <<>> THEN 0 ELSE Head(a) + Base * NatOf(Tail(a)) : a \in {x}})

ShiftLeftLimbs(x, n) ==
    Only({IF a = <<>> THEN <<>> ELSE [i \in 1..n |-> 0] \o a : a \in {x}})
ShiftRightLimbs(x, n) == Only({SubSeq(a, n + 1, Len(a)) : a \in {x}})

Limb(a, i) == IF i <= Len(a) THEN a[i] ELSE 0

RECURSIVE AddCarry(_, _, _, _)
AddCarry(a, b, i, c) ==
    IF i > Len(a) /\ i > Len(b) THEN (IF c = 0 THEN <<>> ELSE <<c>>)
    ELSE IF i > Len(a) /\ c = 0 THEN SubSeq(b, i, Len(b))
    ELSE IF i > Len(b) /\ c = 0 THEN SubSeq(a, i, Len(a))
    ELSE LET s == Limb(a, i) + Limb(b, i) + c
         IN  <<s % Base>> \o AddCarry(a, b, i + 1, s \div Base)
AddLimbs(x, y) == Only({AddCarry(a, b, 1, 0) : a \in {x}, b \in {y}})

(* a - b for a >= b *)
RECURSIVE SubBorrow(_, _, _, _)
SubBorrow(a, b, i, c) ==
    IF i > Len(a) THEN <<>>
    ELSE LET d == Limb(a, i) - Limb(b, i) - c
         IN  <<d % Base>> \o SubBorrow(a, b, i + 1, IF d < 0 THEN 1 ELSE 0)
SubLimbs(x, y) == Only({Norm(SubBorrow(a, b, 1, 0)) : a \in {x}, b \in {y}})

RECURSIVE LessFrom(_, _, _)
LessFrom(a, b, i) ==
    IF i = 0 THEN FALSE
    ELSE IF a[i] # b[i] THEN a[i] < b[i]
    ELSE LessFrom(a, b, i - 1)
LessLimbs(x, y) ==
    Only({IF Len(a) # Len(b) THEN Len(a) < Len(b) ELSE LessFrom(a, b, Len(a))
          : a \in {x}, b \in {y}})

(* a * k for a digit k *)
RECURSIVE MulCarry(_, _, _, _)
MulCarry(a, k, i, c) ==
    IF i > Len(a) THEN (IF c = 0 THEN <<>> ELSE <<c>>)
    ELSE LET p == a[i] * k + c
         IN  <<p % Base>> \o MulCarry(a, k, i + 1, p \div Base)
MulSmall(x, k) ==
    Only({IF k = 0 THEN <<>> ELSE MulCarry(a, k, 1, 0) : a \in {x}})

RECURSIVE MulFrom(_, _, _)
MulFrom(a, b, i) ==
    IF i > Len(a) THEN <<>>
    ELSE IF a[i] = 0 THEN ShiftLeftLimbs(MulFrom(a, b, i + 1), 1)
    ELSE LET low == MulSmall(b, a[i])
             high == ShiftLeftLimbs(MulFrom(a, b, i + 1), 1)
         IN  AddLimbs(low, high)
MulLimbs(x, y) ==
    Only({IF Len(a) <= Len(b) THEN MulFrom(a, b, 1) ELSE MulFrom(b, a, 1)
          : a \in {x}, b \in {y}})

(* Quotient and remainder of the division by a digit d *)
RECURSIVE DivFrom(_, _, _, _, _)
DivFrom(a, d, i, r, q) ==
    IF i = 0 THEN [q |-> Norm(q), r |-> r]
    ELSE LET cur == r * Base + a[i]
         IN  DivFrom(a, d, i - 1, cur % d, <<cur \div d>> \o q)
DivSmall(x, d) == Only({DivFrom(a, d, Len(a), 0, <<>>) : a \in {x}})

RECURSIVE BitLength(_)
BitLength(v) == IF v = 0 THEN 0 ELSE 1 + BitLength(v \div 2)
Bits(a) == IF a = <<>> THEN 0 ELSE LimbBits * (Len(a) - 1) + BitLength(a[Len(a)])
TestBit(a, i) == (Limb(a, (i \div LimbBits) + 1) \div Pow2(i % LimbBits)) % 2 = 1

(* a mod 2^n *)
LowBits(a, n) ==
    Norm(SubSeq(a, 1, n \div LimbBits)
            \o <<Limb(a, (n \div LimbBits) + 1) % Pow2(n % LimbBits)>>)

(* Round to nearest, ties to even, at 53 significant bits *)
RoundToDouble(exact) ==
    Only({LET drop == Bits(a) - SignificandBits
              scale == Pow2(drop % LimbBits)
              kept == DivSmall(ShiftRightLimbs(a, drop \div LimbBits), scale).q
              half == TestBit(a, drop - 1)
              sticky == LowBits(a, drop - 1) # <<>>
              up == half /\ (sticky \/ TestBit(a, drop))
          IN  IF drop <= 0 THEN a
              ELSE ShiftLeftLimbs(MulSmall(IF up THEN AddLimbs(kept, <<1>>)
                                           ELSE kept, scale),
                                  drop \div LimbBits)
          : a \in {exact}})

Double(neg, magnitude) ==
    Only({[neg |-> neg /\ mag # <<>>, mag |-> mag] : mag \in {magnitude}})

(* The double nearest to n / d for a digit d: a decimal literal, a JSON
   number, or the string of a DECIMAL column used as a number *)
DoubleOfRatio(n, d) ==
    Only({LET inexact == IF div.r # 0 /\ div.q # <<>> /\ div.q[1] % 2 = 0
                         THEN [div.q EXCEPT ![1] = @ + 1] ELSE div.q
          IN  Double(n < 0, RoundToDouble(inexact))
          : div \in {DivSmall(ShiftLeftLimbs(LimbsOf(IF n < 0 THEN -n ELSE n),
                                             FractionLimbs), d)}})

(* An amount of h hundredths as a Number *)
NumberOf(h) == DoubleOfRatio(h, 100)

Negate(x) == Only({Double(~a.neg, a.mag) : a \in {x}})

(* x + y, x - y and x * y of IEEE 754 *)
Plus(x, y) ==
    Only({IF a.neg = b.neg
          THEN Double(a.neg, RoundToDouble(AddLimbs(a.mag, b.mag)))
          ELSE IF LessLimbs(a.mag, b.mag)
               THEN Double(b.neg, RoundToDouble(SubLimbs(b.mag, a.mag)))
               ELSE Double(a.neg, RoundToDouble(SubLimbs(a.mag, b.mag)))
          : a \in {x}, b \in {y}})
Minus(x, y) == Plus(x, Negate(y))
Multiply(x, y) ==
    Only({Double(a.neg # b.neg,
                 ShiftRightLimbs(RoundToDouble(MulLimbs(a.mag, b.mag)),
                                 FractionLimbs))
          : a \in {x}, b \in {y}})

(* parseFloat(x.toFixed(2)), in hundredths.  Number.prototype.toFixed: "let
   n be an integer for which n / 10^f - x is as close to zero as possible;
   if there are two such n, pick the larger n", on the magnitude of x. *)
ToFixed2(number) ==
    Only({LET n == NatOf(ShiftRightLimbs(
                       AddLimbs(MulSmall(x.mag, 100),
                                ShiftLeftLimbs(<<Base \div 2>>, FractionLimbs - 1)),
                       FractionLimbs))
          IN  IF x.neg THEN -n ELSE n
          : x \in {number}})

-----------------------------------------------------------------------------
(* SalesService._generateSaleNumber: "SA" + YYYYMMDD + the last four digits
   of the millisecond timestamp.  All clock readings of the model fall on
   one day, so the date part is the same for all. *)
_generateSaleNumber(t) == t % TimestampMod

(* The reduce of _calculateSaleTotals over items[i..]:
   sum + ((item.unitPrice * item.quantity) - item.discount) *)
RECURSIVE SubtotalFrom(_, _, _)
SubtotalFrom(items, i, sum) ==
    IF i > Len(items) THEN sum
    ELSE SubtotalFrom(items, i + 1,
             Plus(sum, Minus(Multiply(NumberOf(items[i].unitPrice),
                                      DoubleOfRatio(items[i].quantity, 1)),
                             NumberOf(items[i].discount))))

(* SalesService._calculateSaleTotals: the amounts of the items and the
   results are in hundredths, the arithmetic between them is the one of
   JavaScript numbers. *)
_calculateSaleTotals(items, saleDiscountAmount) ==
    Only({LET discountAmount == NumberOf(saleDiscountAmount)
              taxRate == DoubleOfRatio(TaxRatePct, 100)
              taxAmount == Multiply(subtotal, taxRate)
              totalAmount == Minus(Plus(subtotal, taxAmount), discountAmount)
          IN  [subtotal       |-> ToFixed2(subtotal),
               taxAmount      |-> ToFixed2(taxAmount),
               discountAmount |-> ToFixed2(discountAmount),
               totalAmount    |-> ToFixed2(totalAmount)]
          : subtotal \in {SubtotalFrom(items, 1, DoubleOfRatio(0, 1))}})

(* Sale model validators: min 0 on subtotal, taxAmount, discountAmount and
   totalAmount. *)
SaleValid(t) ==
    /\ t.subtotal >= 0
    /\ t.taxAmount >= 0
    /\ t.discountAmount >= 0
    /\ t.totalAmount >= 0

(* Sale.paymentStatus: ENUM('paid', 'pending', 'partial') with validator
   isIn [['paid', 'pending', 'partial']].  Model.update validates the
   attributes it is given. *)
PaymentStatusValid(status) == status \in {"paid", "pending", "partial"}

(* Medicine.stockQuantity validator: min 0 *)
StockQuantityValid(q) == q >= 0

(* Customer.prototype.updatePurchaseTotal on the instance c *)
updatePurchaseTotal(c, amount) ==
    LET pointsToAdd == amount \div (PointsDivisor * Cent)
    IN  [totalPurchases |-> c.totalPurchases + amount,
         loyaltyPoints  |-> IF pointsToAdd > 0
                            THEN c.loyaltyPoints + pointsToAdd
                            ELSE c.loyaltyPoints]

(* SalesService._adjustCustomerLoyaltyForRefund on the instance c *)
_adjustCustomerLoyaltyForRefund(c, refundAmount) ==
    [totalPurchases |-> Max(0, c.totalPurchases - refundAmount),
     loyaltyPoints  |-> Max(0, c.loyaltyPoints
                                 - (refundAmount \div (PointsDivisor * Cent)))]

-----------------------------------------------------------------------------
(* Requests *)

Line(m, q) ==
    [medicineId |-> m, quantity |-> q, unitPrice |-> NoPrice, discount |-> 0]

(* One line of any quantity, or two lines of one unit each: of two
   medicines in either order, or twice the same medicine. *)
ItemLists ==
    {<<Line(1, q)>> : q \in 1..MaxQty}
        \cup {<<Line(1, 1), Line(2, 1)>>, <<Line(2, 1), Line(1, 1)>>,
              <<Line(1, 1), Line(1, 1)>>}

SaleRequests ==
    [customerId : {NoCustomer} \cup Custs, items : ItemLists, discountAmount : {0}]

(* Requests that name a customer or a medicine that does not exist or is
   not active *)
UnresolvedRequests ==
    [customerId : {UnknownCustomer}, items : {<<Line(1, 1)>>}, discountAmount : {0}]
        \cup [customerId : {NoCustomer} \cup Custs,
              items : {<<Line(UnknownMedicine, 1)>>,
                       <<Line(1, 1), Line(UnknownMedicine, 1)>>,
                       <<Line(UnknownMedicine, 1), Line(1, 1)>>},
              discountAmount : {0}]

(* JavaScript values of an amount: a number, or a string that reads as
   that number (strings are sequences of character codes). *)
JSNumber(v) == [isString |-> FALSE, value |-> v, text |-> <<>>]
JSString(v, text) == [isString |-> TRUE, value |-> v, text |-> text]

RECURSIVE Digits(_)
Digits(n) == IF n < 10 THEN <<48 + n>> ELSE Append(Digits(n \div 10), 48 + (n % 10))

(* A DECIMAL(12, 2) column as the driver returns it: the string "11.80" *)
DecimalString(h) ==
    Digits(h \div Cent) \o <<46, 48 + ((h % Cent) \div 10), 48 + (h % 10)>>
DecimalValue(h) == JSString(h, DecimalString(h))

(* An amount as a client writes it in a form or a JSON string: "100" *)
RequestString(h) ==
    JSString(h, IF h % Cent = 0 THEN Digits(h \div Cent) ELSE DecimalString(h))

(* a > b of JavaScript: two strings compare by their characters, anything
   else by value *)
RECURSIVE LexGreater(_, _)
LexGreater(a, b) ==
    IF a = <<>> THEN FALSE
    ELSE IF b = <<>> THEN TRUE
    ELSE IF Head(a) # Head(b) THEN Head(a) > Head(b)
    ELSE LexGreater(Tail(a), Tail(b))
GreaterThan(a, b) ==
    IF a.isString /\ b.isString THEN LexGreater(a.text, b.text)
    ELSE a.value > b.value

(* req.body.amount after body('amount').optional().isFloat({ min: 0 }):
   absent, a number, or a numeric string *)
RefundAmounts ==
    {JSNumber(NoAmount)}
        \cup {JSNumber(v) : v \in {0, 1000, 10000}}
        \cup {RequestString(v) : v \in {1000, 10000}}

NoInstance == [totalPurchases |-> -1, loyaltyPoints |-> -1]
NoData == [key |-> "none", value |-> "none"]
NoError == [medicineId |-> 0, availableStock |-> 0, requestedQuantity |-> 0]
NoTotals == [subtotal |-> 0, taxAmount |-> 0, discountAmount |-> 0, totalAmount |-> 0]
NoRequest == [customerId |-> NoCustomer, items |-> <<>>, discountAmount |-> 0]
NoWrites == [m \in Meds |-> 0]
NoSnapshot == [stock |-> <<>>, nsales |-> 0, cust |-> <<>>]

(* The locals of a request that is not in a handler *)
Idle ==
    [pc |-> "idle", op |-> "none", outcome |-> "none",
     error |-> NoError,          \* the fields of an InsufficientStockError
     req |-> NoRequest,          \* saleData of processSale
     saleNumber |-> 0,
     customer |-> NoInstance,    \* the Customer instance read by the handler
     items |-> <<>>,             \* validatedItems, or sale.items of a refund
     totals |-> NoTotals,
     idx |-> 0,                  \* next item of the inventory update
     inserted |-> FALSE,         \* the transaction holds an uncommitted sale row
     locks |-> {},               \* medicine rows the transaction has updated
     txStock |-> NoWrites,       \* its uncommitted stockQuantity values
     order |-> <<>>,             \* medicine rows in the order it updated them
     data |-> NoData,            \* updateSale: the filtered update data
     saleId |-> 0,               \* processRefund / deleteSale: the sale
     medicineId |-> 0,           \* adjustStock: req.params.id
     adjustment |-> 0,           \* adjustStock: req.body.adjustment
     amount |-> JSNumber(NoAmount), \* processRefund: the amount asked for
     refundAmount |-> JSNumber(0),
     pre |-> NoSnapshot]         \* the database when the call started

Init ==
    /\ stock = [m \in Meds |-> InitStock]
    /\ sales = <<>>
    /\ cust = [c \in Custs |-> [totalPurchases |-> 0, loyaltyPoints |-> 0]]
    /\ calls = 0
    /\ loc = [p \in Procs |-> Idle]

-----------------------------------------------------------------------------
(* Transactions *)

Snapshot == [stock |-> stock, nsales |-> Len(sales), cust |-> cust]

(* transaction.rollback() left out of the catch block: the transaction
   stays open on its connection and keeps its row locks. *)
rollbackMissing(l) == l

(* The end of a transaction: its pending writes are gone from the
   connection (applied by the commit or dropped) and its row locks released. *)
endTransaction(l) ==
    [l EXCEPT !.inserted = FALSE, !.locks = {}, !.txStock = NoWrites]

(* transaction.rollback(): the uncommitted sale row and stock writes are
   dropped and the row locks released. *)
rollback(l) == endTransaction(l)

(* What is left of a call that has returned or thrown: its result for the
   caller, and its transaction. *)
Returned(l, code) ==
    [Idle EXCEPT !.pc = "done", !.op = l.op, !.outcome = code,
                 !.saleId = l.saleId, !.amount = l.amount,
                 !.error = l.error,
                 !.inserted = l.inserted, !.locks = l.locks,
                 !.txStock = l.txStock]

(* catch (error) { await transaction.rollback(); throw error; } *)
Throw(l, code) == Returned(rollback(l), code)

(* The request p waits for a row lock that the transaction of q holds. *)
WaitsFor(p, q) ==
    /\ p # q
    /\ loc[p].pc = "inventory"
    /\ loc[p].items[loc[p].idx].medicineId \in loc[q].locks

-----------------------------------------------------------------------------
(* SalesService.processSale *)

(* const unitPrice = item.unitPrice || medicine.sellingPrice (undefined and
   the number 0 are falsy), and the validated item with the Medicine
   instance it was read with. *)
PrepareItem(item) ==
    LET unitPrice == IF item.unitPrice \notin {NoPrice, 0} THEN item.unitPrice
                     ELSE sellingPrice[item.medicineId]
    IN  [medicineId |-> item.medicineId,
         quantity   |-> item.quantity,
         unitPrice  |-> unitPrice,
         discount   |-> item.discount,
         totalPrice |-> ToFixed2(Minus(Multiply(NumberOf(unitPrice),
                                                DoubleOfRatio(item.quantity, 1)),
                                       NumberOf(item.discount))),
         stockQuantity |-> stock[item.medicineId]]

(* The stock check left out of _validateAndPrepareItems *)
FirstUnknownItem(items) ==
    LET bad == {i \in 1..Len(items) : items[i].medicineId \notin Meds}
    IN  IF bad = {} THEN 0 ELSE CHOOSE i \in bad : \A j \in bad : i <= j

(* The first item of the request that fails _validateAndPrepareItems, or 0.
   All medicine reads run in the transaction, whose consistent snapshot
   (REPEATABLE READ, the MySQL default) is the one of its first read. *)
FirstBadItem(items) ==
    LET bad == {i \in 1..Len(items) :
                   \/ items[i].medicineId \notin Meds
                   \/ stock[items[i].medicineId] < items[i].quantity}
    IN  IF bad = {} THEN 0 ELSE CHOOSE i \in bad : \A j \in bad : i <= j

(* customerRepository.findOne({ id: customerId, isActive: true }) *)
findCustomer(customerId) ==
    IF customerId \in Custs THEN cust[customerId] ELSE NoInstance

(* The customer check left out *)
CustomerNeverMissing(customerId) == FALSE

(* if (customerId) { customer = findOne(...); if (!customer) throw } *)
CustomerNotFound(customerId) ==
    customerId # NoCustomer /\ findCustomer(customerId) = NoInstance

(* sequelize.transaction(), _generateSaleNumber() and the customer lookup *)
processSale(p, requests) ==
    /\ loc[p].pc \in {"idle", "done"}
    /\ calls' = calls + 1
    /\ \E r \in requests, t \in Times :
        /\ LET l == [Idle EXCEPT !.op = "sale", !.req = r, !.pre = Snapshot,
                                 !.saleNumber = _generateSaleNumber(t)]
           IN  IF CustomerNotFound(r.customerId)
               THEN loc' = [loc EXCEPT ![p] = Throw(l, "CUSTOMER_NOT_FOUND")]
               ELSE loc' = [loc EXCEPT ![p] =
                        [l EXCEPT !.pc = "validate",
                                  !.customer = IF r.customerId = NoCustomer
                                               THEN NoInstance
                                               ELSE findCustomer(r.customerId)]]
    /\ UNCHANGED <<stock, sales, cust>>

SaleBegin(p) == processSale(p, SaleRequests)

(* _validateAndPrepareItems and _calculateSaleTotals *)
SaleValidate(p) ==
    LET l == loc[p]
        bad == FirstBadItem(l.req.items)
        validatedItems == [i \in 1..Len(l.req.items) |-> PrepareItem(l.req.items[i])]
    IN  /\ l.pc = "validate"
        /\ UNCHANGED <<stock, sales, cust, calls>>
        /\ IF bad # 0
           THEN loc' = [loc EXCEPT ![p] =
                    IF l.req.items[bad].medicineId \notin Meds
                    THEN Throw(l, "MEDICINE_NOT_FOUND")
                    ELSE Throw([l EXCEPT !.error =
                                   [medicineId |-> l.req.items[bad].medicineId,
                                    availableStock |->
                                        stock[l.req.items[bad].medicineId],
                                    requestedQuantity |->
                                        l.req.items[bad].quantity]],
                               "INSUFFICIENT_STOCK")]
           ELSE loc' = [loc EXCEPT ![p] =
                    Only({[l EXCEPT !.pc = "persist",
                                     !.items = items,
                                     !.totals = _calculateSaleTotals(
                                                    items, l.req.discountAmount)]
                          : items \in {validatedItems}})]

(* salesRepository.createSaleWithItems: Sale.create validates the row,
   SaleItem.bulkCreate(saleItems, { transaction }) is called without the
   validate and individualHooks options and runs neither the validators nor
   the beforeCreate hook of SaleItem, and
   the unique index on sale_number makes the INSERT wait for a transaction
   that holds an uncommitted row with the same number. *)
SalePersist(p) ==
    LET l == loc[p]
    IN  /\ l.pc = "persist"
        /\ IF ~SaleValid(l.totals)
           THEN loc' = [loc EXCEPT ![p] = Throw(l, "VALIDATION_ERROR")]
           ELSE /\ \A q \in Procs \ {p} :
                      ~(loc[q].inserted /\ loc[q].saleNumber = l.saleNumber)
                /\ IF \E i \in 1..Len(sales) : sales[i].saleNumber = l.saleNumber
                   THEN loc' = [loc EXCEPT ![p] = Throw(l, "DUPLICATE_SALE_NUMBER")]
                   ELSE loc' = [loc EXCEPT ![p] =
                            [l EXCEPT !.pc = "inventory", !.inserted = TRUE, !.idx = 1]]
        /\ UNCHANGED <<stock, sales, cust, calls>>

(* _updateInventoryAfterSale written with a relative decrement
   (stock_quantity = stock_quantity - quantity), which the model validator
   does not see. *)
SaleUpdateInventoryDecrement(p) ==
    LET l == loc[p]
        item == l.items[l.idx]
        m == item.medicineId
        current == IF m \in l.locks THEN l.txStock[m] ELSE stock[m]
    IN  /\ l.pc = "inventory"
        /\ \A o \in Procs \ {p} : m \notin loc[o].locks
        /\ loc' = [loc EXCEPT ![p] =
              [l EXCEPT !.locks = @ \cup {m},
                        !.txStock[m] = current - item.quantity,
                        !.order = Append(@, m),
                        !.idx = @ + 1,
                        !.pc = IF l.idx < Len(l.items) THEN "inventory"
                               ELSE IF l.customer # NoInstance
                                    THEN "loyalty" ELSE "commit"]]
        /\ UNCHANGED <<stock, sales, cust, calls>>

(* _updateInventoryAfterSale: one UPDATE per validated item, sent on the
   transaction's connection in the order of the items.  Medicine.update
   validates the value, and the UPDATE waits for the row lock. *)
SaleUpdateInventory(p) ==
    LET l == loc[p]
        item == l.items[l.idx]
        m == item.medicineId
        q == item.stockQuantity - item.quantity
    IN  /\ l.pc = "inventory"
        /\ IF ~StockQuantityValid(q)
           THEN loc' = [loc EXCEPT ![p] = Throw(l, "VALIDATION_ERROR")]
           ELSE /\ \A o \in Procs \ {p} : m \notin loc[o].locks
                /\ loc' = [loc EXCEPT ![p] =
                      [l EXCEPT !.locks = @ \cup {m},
                                !.txStock[m] = q,
                                !.order = Append(@, m),
                                !.idx = @ + 1,
                                !.pc = IF l.idx < Len(l.items) THEN "inventory"
                                       ELSE IF l.customer # NoInstance
                                            THEN "loyalty" ELSE "commit"]]
        /\ UNCHANGED <<stock, sales, cust, calls>>

(* _updateCustomerLoyalty: customer.updatePurchaseTotal saves the instance
   without the transaction, so the row is written at once. *)
SaleLoyalty(p) ==
    LET l == loc[p]
    IN  /\ l.pc = "loyalty"
        /\ cust' = [cust EXCEPT ![l.req.customerId] =
                        updatePurchaseTotal(l.customer, l.totals.totalAmount)]
        /\ loc' = [loc EXCEPT ![p] = [l EXCEPT !.pc = "commit"]]
        /\ UNCHANGED <<stock, sales, calls>>

SaleRecord(l) ==
    [saleNumber |-> l.saleNumber,
     customerId |-> l.req.customerId,
     items |-> [i \in 1..Len(l.items) |->
                   [medicineId |-> l.items[i].medicineId,
                    quantity   |-> l.items[i].quantity,
                    unitPrice  |-> l.items[i].unitPrice,
                    discount   |-> l.items[i].discount,
                    totalPrice |-> l.items[i].totalPrice]],
     subtotal |-> l.totals.subtotal,
     taxAmount |-> l.totals.taxAmount,
     discountAmount |-> l.totals.discountAmount,
     totalAmount |-> l.totals.totalAmount,
     paymentMethod |-> "cash",
     paymentStatus |-> "paid",
     notes |-> <<>>]

(* transaction.commit() *)
SaleCommit(p) ==
    LET l == loc[p]
    IN  /\ l.pc = "commit"
        /\ stock' = [m \in Meds |-> IF m \in l.locks THEN l.txStock[m] ELSE stock[m]]
        /\ sales' = Append(sales, SaleRecord(l))
        /\ loc' = [loc EXCEPT ![p] = Returned(endTransaction(l), "OK")]
        /\ UNCHANGED <<cust, calls>>

(* transaction.commit() succeeds and the read-back of the sale after it,
   getSaleWithDetails(sale.id), rejects inside the same try block: the
   catch block calls rollback() on the finished transaction, which undoes
   nothing, and the call throws. *)
SaleReadBackFail(p) ==
    LET l == loc[p]
    IN  /\ l.pc = "commit"
        /\ stock' = [m \in Meds |-> IF m \in l.locks THEN l.txStock[m] ELSE stock[m]]
        /\ sales' = Append(sales, SaleRecord(l))
        /\ loc' = [loc EXCEPT ![p] = Returned(endTransaction(l), "ROLLBACK_ERROR")]
        /\ UNCHANGED <<cust, calls>>

(* A database call of the handler rejects (connection lost, lock wait
   timeout): the catch block rolls back and rethrows. *)
CallFail(p) ==
    /\ loc[p].pc \in {"validate", "persist", "inventory", "loyalty", "commit",
                      "status", "update"}
    /\ loc' = [loc EXCEPT ![p] = Throw(loc[p], "DB_ERROR")]
    /\ UNCHANGED <<stock, sales, cust, calls>>

(* InnoDB deadlock detection: a transaction in a cycle of lock waits gets
   ER_LOCK_DEADLOCK from its UPDATE. *)
DeadlockVictim(p) ==
    /\ \E q \in Procs : WaitsFor(p, q) /\ WaitsFor(q, p)
    /\ loc' = [loc EXCEPT ![p] = Throw(loc[p], "DEADLOCK")]
    /\ UNCHANGED <<stock, sales, cust, calls>>

-----------------------------------------------------------------------------
(* SalesService.processRefund and SalesService.deleteSale *)

(* const refundAmount = amount || sale.totalAmount *)
RefundAmount(amount, totalAmount) ==
    IF amount.value = NoAmount \/ (~amount.isString /\ amount.value = 0)
    THEN totalAmount ELSE amount

(* if (refundAmount > sale.totalAmount) throw INVALID_REFUND_AMOUNT *)
RefundAmountRejected(refundAmount, totalAmount) ==
    GreaterThan(refundAmount, totalAmount)

(* if (sale.paymentStatus === 'refunded') throw ALREADY_REFUNDED *)
RefundStatusRejected(paymentStatus) == paymentStatus = "refunded"

(* if (sale.paymentStatus === 'refunded' || ... === 'cancelled') throw *)
DeleteStatusRejected(paymentStatus) == paymentStatus \in {"refunded", "cancelled"}

(* salesRepository.getSaleWithDetails: the sale with its items, the
   Medicine of each item and its Customer, read outside the transaction. *)
getSaleWithDetails(l, saleId) ==
    LET sale == sales[saleId]
    IN  [l EXCEPT !.items = [i \in 1..Len(sale.items) |->
                      [medicineId |-> sale.items[i].medicineId,
                       quantity   |-> sale.items[i].quantity,
                       unitPrice  |-> sale.items[i].unitPrice,
                       discount   |-> sale.items[i].discount,
                       totalPrice |-> sale.items[i].totalPrice,
                       stockQuantity |-> stock[sale.items[i].medicineId]]],
                  !.customer = IF sale.customerId = NoCustomer THEN NoInstance
                               ELSE cust[sale.customerId]]

(* processRefund up to the refund amount check *)
RefundBegin(p) ==
    /\ loc[p].pc \in {"idle", "done"}
    /\ calls' = calls + 1
    /\ \E saleId \in 1..(Len(sales) + 1), amount \in RefundAmounts :
        LET l == [Idle EXCEPT !.op = "refund", !.saleId = saleId,
                              !.amount = amount, !.pre = Snapshot]
        IN  IF saleId > Len(sales)
            THEN loc' = [loc EXCEPT ![p] = Throw(l, "SALE_NOT_FOUND")]
            ELSE IF RefundStatusRejected(sales[saleId].paymentStatus)
            THEN loc' = [loc EXCEPT ![p] = Throw(l, "ALREADY_REFUNDED")]
            ELSE IF RefundAmountRejected(
                        RefundAmount(amount, DecimalValue(sales[saleId].totalAmount)),
                        DecimalValue(sales[saleId].totalAmount))
            THEN loc' = [loc EXCEPT ![p] = Throw(l, "INVALID_REFUND_AMOUNT")]
            ELSE loc' = [loc EXCEPT ![p] =
                     [getSaleWithDetails(l, saleId) EXCEPT
                         !.pc = "status",
                         !.refundAmount =
                             RefundAmount(amount,
                                          DecimalValue(sales[saleId].totalAmount))]]
    /\ UNCHANGED <<stock, sales, cust>>

(* deleteSale up to the status check *)
DeleteBegin(p) ==
    /\ loc[p].pc \in {"idle", "done"}
    /\ calls' = calls + 1
    /\ \E saleId \in 1..(Len(sales) + 1) :
        LET l == [Idle EXCEPT !.op = "delete", !.saleId = saleId, !.pre = Snapshot]
        IN  IF saleId > Len(sales)
            THEN loc' = [loc EXCEPT ![p] = Throw(l, "SALE_NOT_FOUND")]
            ELSE IF DeleteStatusRejected(sales[saleId].paymentStatus)
            THEN loc' = [loc EXCEPT ![p] = Throw(l, "CANNOT_DELETE_SALE")]
            ELSE loc' = [loc EXCEPT ![p] =
                     [getSaleWithDetails(l, saleId) EXCEPT
                         !.pc = "status",
                         !.refundAmount = DecimalValue(sales[saleId].totalAmount)]]
    /\ UNCHANGED <<stock, sales, cust>>

(* _restoreInventoryAfterRefund: every item writes the stockQuantity its
   Medicine instance was read with plus its quantity; of two items of one
   medicine the later write stays. *)
_restoreInventoryAfterRefund(items, m) ==
    LET mine == {i \in 1..Len(items) : items[i].medicineId = m}
        last == CHOOSE i \in mine : \A j \in mine : j <= i
    IN  IF mine = {} THEN stock[m]
        ELSE items[last].stockQuantity + items[last].quantity

(* The status and note that processRefund / deleteSale write *)
NewStatus(l) == IF l.op = "refund" THEN "refunded" ELSE "cancelled"
NewNote(l) == IF l.op = "refund" THEN <<"REFUND", l.refundAmount.value>>
              ELSE <<"CANCELLED", 0>>

(* salesRepository.updateSaleStatus and what follows it.  Sale.update
   validates paymentStatus against the model and rejects the new status,
   so the steps after it (inventory restore, loyalty adjustment, commit)
   are written here as the one step they would be if it were accepted. *)
UpdateSaleStatus(p) ==
    LET l == loc[p]
    IN  /\ l.pc = "status"
        /\ IF ~PaymentStatusValid(NewStatus(l))
           THEN /\ loc' = [loc EXCEPT ![p] = Throw(l, "VALIDATION_ERROR")]
                /\ UNCHANGED <<stock, sales, cust>>
           ELSE /\ \A o \in Procs \ {p}, i \in 1..Len(l.items) :
                      l.items[i].medicineId \notin loc[o].locks
                /\ sales' = [sales EXCEPT ![l.saleId].paymentStatus = NewStatus(l),
                                          ![l.saleId].notes = Append(@, NewNote(l))]
                /\ stock' = [m \in Meds |-> _restoreInventoryAfterRefund(l.items, m)]
                /\ cust' = IF sales[l.saleId].customerId = NoCustomer THEN cust
                           ELSE [cust EXCEPT ![sales[l.saleId].customerId] =
                                    _adjustCustomerLoyaltyForRefund(l.customer,
                                                              l.refundAmount.value)]
                /\ loc' = [loc EXCEPT ![p] = Returned(endTransaction(l), "OK")]
        /\ UNCHANGED calls

-----------------------------------------------------------------------------
(* SalesService.updateSale *)

(* req.body of PUT /api/sales/:id, one key at a time *)
UpdateData ==
    {[key |-> "paymentMethod", value |-> "card"],
     [key |-> "notes", value |-> "edited"],
     [key |-> "notes", value |-> "revised"],
     [key |-> "totalAmount", value |-> "0"]}

(* const allowedFields = ['notes', 'paymentMethod'] *)
allowedFields == {"notes", "paymentMethod"}

(* Sale.paymentMethod: ENUM('cash', 'card', 'insurance', 'credit') with
   the isIn validator of the same values *)
PaymentMethodValid(method) == method \in {"cash", "card", "insurance", "credit"}

(* updateSale up to the filter of the update data *)
UpdateBegin(p) ==
    /\ loc[p].pc \in {"idle", "done"}
    /\ calls' = calls + 1
    /\ \E saleId \in 1..(Len(sales) + 1), updateData \in UpdateData :
        LET l == [Idle EXCEPT !.op = "update", !.saleId = saleId, !.pre = Snapshot]
        IN  IF saleId > Len(sales)
            THEN loc' = [loc EXCEPT ![p] = Throw(l, "SALE_NOT_FOUND")]
            ELSE IF updateData.key \notin allowedFields
            THEN loc' = [loc EXCEPT ![p] = Throw(l, "NO_VALID_FIELDS")]
            ELSE loc' = [loc EXCEPT ![p] =
                     [l EXCEPT !.pc = "update", !.data = updateData]]
    /\ UNCHANGED <<stock, sales, cust>>

(* salesRepository.update(saleId, filteredData, { transaction }) and the
   commit: the note or the payment method of the sale is overwritten. *)
UpdateSaleFields(p) ==
    LET l == loc[p]
    IN  /\ l.pc = "update"
        /\ IF l.data.key = "paymentMethod" /\ ~PaymentMethodValid(l.data.value)
           THEN /\ loc' = [loc EXCEPT ![p] = Throw(l, "VALIDATION_ERROR")]
                /\ UNCHANGED sales
           ELSE /\ sales' = [sales EXCEPT ![l.saleId] =
                      IF l.data.key = "paymentMethod"
                      THEN [@ EXCEPT !.paymentMethod = l.data.value]
                      ELSE [@ EXCEPT !.notes = <<<<l.data.value, 0>>>>]]
                /\ loc' = [loc EXCEPT ![p] = Returned(endTransaction(l), "OK")]
        /\ UNCHANGED <<stock, cust, calls>>

-----------------------------------------------------------------------------
(* Specifications *)

(* A request takes the next step of processSale *)
SaleStep(p) ==
    \/ SaleValidate(p)
    \/ SalePersist(p)
    \/ SaleUpdateInventory(p)
    \/ SaleLoyalty(p)
    \/ SaleCommit(p)

(* A request takes the next step of the handler it is in *)
Step(p) == SaleStep(p) \/ UpdateSaleStatus(p) \/ UpdateSaleFields(p)

(* Concurrent requests *)
Next ==
    \E p \in Procs :
        \/ calls < MaxCalls /\ SaleBegin(p)
        \/ calls < MaxCalls /\ RefundBegin(p)
        \/ calls < MaxCalls /\ DeleteBegin(p)
        \/ calls < MaxCalls /\ UpdateBegin(p)
        \/ Step(p)
        \/ CallFail(p)
        \/ SaleReadBackFail(p)
        \/ DeadlockVictim(p)

Spec == Init /\ [][Next]_vars

(* Sales of one unit of each of two medicines: request p lists them in
   ascending order of their ids when p is odd, in descending order when
   p is even. *)
OpposedRequests(p) ==
    {r \in SaleRequests :
        /\ Len(r.items) = 2
        /\ r.items[1].medicineId # r.items[2].medicineId
        /\ (r.items[1].medicineId < r.items[2].medicineId) <=> (p % 2 = 1)}

(* Every request makes one processSale call, and the requests list the
   same two medicines in opposite orders.  A handler step and the deadlock
   detector are eventually taken when they stay possible: Node's event
   loop runs every continuation whose database call has returned, and
   InnoDB answers every statement that is not waiting for a lock. *)
SaleNext ==
    \E p \in Procs :
        \/ loc[p].pc = "idle" /\ processSale(p, OpposedRequests(p))
        \/ SaleStep(p)
        \/ CallFail(p)
        \/ SaleReadBackFail(p)
        \/ DeadlockVictim(p)

FairSpec ==
    /\ Init
    /\ [][SaleNext]_vars
    /\ \A p \in Procs : WF_vars(SaleStep(p)) /\ WF_vars(DeadlockVictim(p))

(* One sale, then calls of processRefund and deleteSale by both requests,
   which may overlap.  No database call fails. *)
MaxRefundCalls == 3      \* service calls started in one behaviour of RefundSpec

RefundNext ==
    \E p \in Procs :
        \/ calls = 0 /\ p = 1 /\ processSale(p, SaleRequests)
        \/ SaleStep(p)
        \/ Len(sales) = 1 /\ calls < MaxRefundCalls /\ RefundBegin(p)
        \/ Len(sales) = 1 /\ calls < MaxRefundCalls /\ DeleteBegin(p)
        \/ UpdateSaleStatus(p)

RefundSpec == Init /\ [][RefundNext]_vars

(* Requests with a unit price of their own (item.unitPrice || sellingPrice),
   which may be 0, with a line discount above the value of the line, and
   with a sale discount, which may exceed the amount of the sale *)
PricedRequests ==
    [customerId : {NoCustomer},
     items : {<<Line(1, 1)>>, <<[Line(1, 1) EXCEPT !.unitPrice = 125]>>},
     discountAmount : {0, 5000}]
        \cup [customerId : {NoCustomer},
              items : {<<[Line(1, 1) EXCEPT !.unitPrice = 0]>>,
                       <<[Line(1, 1) EXCEPT !.discount = 1500], Line(2, 1)>>},
              discountAmount : {0}]

(* The sale requests of the sequential runs *)
SeqSaleRequests == SaleRequests \cup UnresolvedRequests \cup PricedRequests

(* One request at a time: every call returns before the next one starts *)
SeqNext ==
    \/ calls < MaxSeqCalls /\ processSale(1, SeqSaleRequests)
    \/ calls < MaxSeqCalls /\ RefundBegin(1)
    \/ calls < MaxSeqCalls /\ DeleteBegin(1)
    \/ calls < MaxSeqCalls /\ UpdateBegin(1)
    \/ Step(1)
    \/ CallFail(1)
    \/ SaleReadBackFail(1)

SeqSpec == Init /\ [][SeqNext]_vars

-----------------------------------------------------------------------------
(* medicineController.adjustStock behind validateStockAdjustment *)

MaxAdjustCalls == 3      \* adjustments in one behaviour of AdjustSpec

(* req.body.adjustment after body('adjustment').isInt() *)
Adjustments == {-2, -1, 0, 1, 2}

(* The response of adjustStock for the medicine id and the adjustment:
   Medicine.findOne({ id, isActive: true }), newStock = stockQuantity +
   adjustment, 400 if newStock < 0, else medicine.update({ stockQuantity:
   newStock }), which waits for a row lock a sale holds. *)
adjustStock(p) ==
    /\ loc[p].pc \in {"idle", "done"}
    /\ calls' = calls + 1
    /\ \E id \in Meds \cup {UnknownMedicine}, adjustment \in Adjustments :
          LET l == [Idle EXCEPT !.op = "adjust", !.pc = "done",
                                !.medicineId = id, !.adjustment = adjustment]
          IN  IF id \notin Meds
              THEN /\ loc' = [loc EXCEPT ![p] = [l EXCEPT !.outcome = "MEDICINE_NOT_FOUND"]]
                   /\ stock' = stock
              ELSE LET newStock == stock[id] + adjustment
                   IN  IF newStock < 0
                       THEN /\ loc' = [loc EXCEPT ![p] =
                                         [l EXCEPT !.outcome = "NEGATIVE_STOCK"]]
                            /\ stock' = stock
                       ELSE /\ \A o \in Procs : id \notin loc[o].locks
                            /\ loc' = [loc EXCEPT ![p] = [l EXCEPT !.outcome = "OK"]]
                            /\ stock' = [stock EXCEPT ![id] = newStock]
    /\ UNCHANGED <<sales, cust>>

AdjustNext == calls < MaxAdjustCalls /\ adjustStock(1)

AdjustSpec == Init /\ [][AdjustNext]_vars

-----------------------------------------------------------------------------
(* _calculateSaleTotals on its own: validated items of any price, quantity
   and line discount, and any sale discount, all in hundredths *)

TotalsLines ==
    [medicineId : {1}, quantity : {1, 2}, unitPrice : {25, 125, 1000, 1999},
     discount : {0, 5}]
TotalsItems == {<<a>> : a \in TotalsLines} \cup {<<a, b>> : a, b \in TotalsLines}
TotalsDiscounts == {0, 100}

(* const totals = this._calculateSaleTotals(validatedItems, discountAmount) *)
CalculateTotals ==
    /\ loc[1].pc = "idle"
    /\ \E items \in TotalsItems, d \in TotalsDiscounts :
          loc' = [loc EXCEPT ![1] =
                    [Idle EXCEPT !.op = "totals", !.pc = "done",
                                 !.items = items,
                                 !.req = [NoRequest EXCEPT !.discountAmount = d],
                                 !.totals = _calculateSaleTotals(items, d)]]
    /\ UNCHANGED <<stock, sales, cust, calls>>

TotalsSpec == Init /\ [][CalculateTotals]_vars

-----------------------------------------------------------------------------
(* Properties *)

InSale(p) == loc[p].op = "sale" /\ loc[p].pc \notin {"idle", "done"}
Returns(p) == loc[p].pc \notin {"idle", "done"} /\ loc'[p].pc = "done"

(* Units of medicine m on the lines of a sale *)
SaleQuantity(sale, m) ==
    SumSeq([i \in 1..Len(sale.items) |->
               IF sale.items[i].medicineId = m THEN sale.items[i].quantity ELSE 0])

(* Units of m sold by all committed sales, and units of m on the sales that
   were refunded or cancelled *)
SoldQuantity(m) ==
    SumSeq([i \in 1..Len(sales) |-> SaleQuantity(sales[i], m)])
RestoredQuantity(m) ==
    SumSeq([i \in 1..Len(sales) |->
               IF sales[i].paymentStatus \in {"refunded", "cancelled"}
               THEN SaleQuantity(sales[i], m) ELSE 0])

(* C1: under any interleaving of processSale and processRefund calls the
   stockQuantity of every medicine, committed or written by a transaction
   that has not committed yet, is at least zero. *)
C1_StockNonNegative ==
    /\ \A m \in Meds : stock[m] >= 0
    /\ \A p \in Procs : \A m \in loc[p].locks : loc[p].txStock[m] >= 0

(* Two sales of the same medicine have committed and took its last unit. *)
C1_Witness ==
    /\ Len(sales) = 2
    /\ \E m \in Meds :
          /\ stock[m] = 0
          /\ SaleQuantity(sales[1], m) > 0
          /\ SaleQuantity(sales[2], m) > 0

(* C2: for every medicine the current stockQuantity is the initial quantity
   minus the quantities of its lines on all committed sales plus the
   quantities of its lines on the refunded sales. *)
C2_Conservation ==
    \A m \in Meds : stock[m] = InitStock - SoldQuantity(m) + RestoredQuantity(m)

(* C3: the stock check and decrement of processSale is atomic with respect
   to the other calls: the quantity a sale decided from and wrote its
   decrement from is still the committed quantity of the row when it
   writes (it holds the row lock from then on). *)
C3_NoStaleDecrement ==
    \A p \in Procs :
        InSale(p) /\ loc[p].pc \in {"inventory", "loyalty", "commit"} =>
            \A i \in 1..Len(loc[p].items) :
                loc[p].items[i].medicineId \in loc[p].locks =>
                    loc[p].items[i].stockQuantity = stock[loc[p].items[i].medicineId]

(* C4: a processSale call that fails before its commit is done leaves every
   stockQuantity, the sales and their items, and the customers'
   loyaltyPoints and totalPurchases as they were when the call started (one
   request at a time). *)
C4_FailedSaleHasNoEffect ==
    [][\A p \in Procs :
          (/\ InSale(p) /\ Returns(p)
           /\ loc'[p].outcome \notin {"OK", "ROLLBACK_ERROR"}) =>
              /\ stock' = loc[p].pre.stock
              /\ Len(sales') = loc[p].pre.nsales
              /\ cust' = loc[p].pre.cust]_vars

(* C5: a processRefund of an existing sale with an acceptable amount, not
   interrupted by a database error, either succeeds or is rejected with
   ALREADY_REFUNDED, and the sale is refunded when it returns: the first
   refund of a sale succeeds and the second is rejected. *)
C5_RefundSucceedsOnce ==
    \A p \in Procs :
        (/\ loc[p].op = "refund"
         /\ loc[p].pc = "done"
         /\ loc[p].outcome \notin {"SALE_NOT_FOUND", "INVALID_REFUND_AMOUNT",
                                   "DB_ERROR"}) =>
            /\ loc[p].outcome \in {"OK", "ALREADY_REFUNDED"}
            /\ sales[loc[p].saleId].paymentStatus = "refunded"

(* C6: a processRefund call whose amount is greater than the totalAmount of
   the sale is rejected with INVALID_REFUND_AMOUNT and changes neither the
   sale nor any stockQuantity nor any customer. *)
C6_ExcessiveRefundRejected ==
    [][\A p \in Procs :
          (/\ loc[p].pc \in {"idle", "done"}
           /\ loc'[p] # loc[p]
           /\ loc'[p].op = "refund"
           /\ loc'[p].saleId <= Len(sales)
           /\ loc'[p].amount.value > sales[loc'[p].saleId].totalAmount) =>
              /\ loc'[p].pc = "done"
              /\ loc'[p].outcome = "INVALID_REFUND_AMOUNT"
              /\ UNCHANGED <<stock, sales, cust>>]_vars

(* Two sales list the same two medicines in opposite order *)
Opposed(p, q) ==
    /\ p # q
    /\ InSale(p) /\ InSale(q)
    /\ \E a, b \in Meds :
          /\ a # b
          /\ Len(loc[p].req.items) = 2 /\ Len(loc[q].req.items) = 2
          /\ loc[p].req.items[1].medicineId = a /\ loc[p].req.items[2].medicineId = b
          /\ loc[q].req.items[1].medicineId = b /\ loc[q].req.items[2].medicineId = a

(* C8: two concurrent processSale calls that list the same two medicines
   in opposite order both return (committed or failed); neither waits for
   the row lock of the other for ever. *)
C8_OpposedSalesTerminate ==
    \A p, q \in Procs : Opposed(p, q) ~> (loc[p].pc = "done")

(* Each of two opposed sales holds the row lock the other waits for. *)
C8_Witness ==
    \E p, q \in Procs : Opposed(p, q) /\ WaitsFor(p, q) /\ WaitsFor(q, p)

(* The medicine of validated item i of a sale is checked and updated
   before the medicine of item j *)
ProcessedBefore(p, a, b) ==
    /\ InSale(p)
    /\ \E i, j \in 1..Len(loc[p].items) :
          /\ i < j
          /\ loc[p].items[i].medicineId = a
          /\ loc[p].items[j].medicineId = b

(* C9: all sale attempts check and update the stock rows of their
   medicines in one fixed order, whatever the order of the request's
   items: no two attempts process two medicines in opposite orders. *)
C9_FixedItemOrder ==
    \A p, q \in Procs : \A a, b \in Meds :
        a # b => ~(ProcessedBefore(p, a, b) /\ ProcessedBefore(q, b, a))

(* C10: two processSale attempts never have the same saleNumber, and none
   fails because its sale number exists already. *)
C10_SaleNumbersDistinct ==
    /\ \A p, q \in Procs :
          (p # q /\ InSale(p) /\ InSale(q)) => loc[p].saleNumber # loc[q].saleNumber
    /\ \A p \in Procs :
          InSale(p) => \A i \in 1..Len(sales) : sales[i].saleNumber # loc[p].saleNumber
    /\ \A p \in Procs : loc[p].outcome # "DUPLICATE_SALE_NUMBER"

(* Line i of a request asks for more units than its medicine has *)
OverRequest(items, i) ==
    /\ items[i].medicineId \in Meds
    /\ stock[items[i].medicineId] < items[i].quantity

(* Line i of a request names no active medicine *)
Unresolved(items, i) == items[i].medicineId \notin Meds

(* The request p has run _validateAndPrepareItems to its end or to its
   throw, without a database error *)
Validated(p) ==
    /\ loc[p].pc = "validate"
    /\ loc'[p] # loc[p]
    /\ loc'[p].outcome # "DB_ERROR"

(* A call of p has failed and left the database as it was *)
FailedWithoutEffect(p) ==
    /\ loc'[p].pc = "done"
    /\ loc'[p].locks = {} /\ ~loc'[p].inserted
    /\ UNCHANGED <<stock, sales, cust>>

(* C11 as stated: when some line of a sale asks for more units than its
   medicine has, processSale fails with an InsufficientStockError that
   carries the medicine, available and requested quantity of such a line,
   and no stock has changed and no sale exists. *)
C11_InsufficientStockRejected ==
    [][\A p \in Procs :
          (Validated(p) /\ \E i \in 1..Len(loc[p].req.items) :
                               OverRequest(loc[p].req.items, i)) =>
              /\ FailedWithoutEffect(p)
              /\ loc'[p].outcome = "INSUFFICIENT_STOCK"
              /\ \E i \in 1..Len(loc[p].req.items) :
                    /\ OverRequest(loc[p].req.items, i)
                    /\ loc'[p].error =
                          [medicineId |-> loc[p].req.items[i].medicineId,
                           availableStock |-> stock[loc[p].req.items[i].medicineId],
                           requestedQuantity |-> loc[p].req.items[i].quantity]]_vars

(* C11 amended: when a line of a sale asks for more units than its medicine
   has and every line before it names an active medicine and asks for no
   more than it has, processSale fails with an InsufficientStockError that
   carries the medicine, available and requested quantity of that line,
   and no stock has changed and no sale exists. *)
C11_FirstOverRequestRejected ==
    [][\A p \in Procs : \A i \in 1..Len(loc[p].req.items) :
          (/\ Validated(p)
           /\ OverRequest(loc[p].req.items, i)
           /\ \A j \in 1..(i - 1) : /\ ~Unresolved(loc[p].req.items, j)
                                    /\ ~OverRequest(loc[p].req.items, j)) =>
              /\ FailedWithoutEffect(p)
              /\ loc'[p].outcome = "INSUFFICIENT_STOCK"
              /\ loc'[p].error =
                    [medicineId |-> loc[p].req.items[i].medicineId,
                     availableStock |-> stock[loc[p].req.items[i].medicineId],
                     requestedQuantity |-> loc[p].req.items[i].quantity]]_vars

(* A sale was refused for a medicine whose stock an earlier sale had
   taken: the error carries the medicine, what is left and what was asked. *)
C11_Witness ==
    \E p \in Procs :
        /\ loc[p].op = "sale" /\ loc[p].pc = "done"
        /\ loc[p].outcome = "INSUFFICIENT_STOCK"
        /\ loc[p].error.medicineId = 1
        /\ loc[p].error.availableStock = stock[1]
        /\ loc[p].error.availableStock < loc[p].error.requestedQuantity
        /\ Len(sales) = 1

(* The references of a sale request resolve: its customer, when it names
   one, is an active customer and every line names an active medicine *)
ReferencesResolve(r) ==
    /\ r.customerId \in {NoCustomer} \cup Custs
    /\ \A i \in 1..Len(r.items) : ~Unresolved(r.items, i)

(* C12 as stated: a sale goes on past the customer lookup only with a
   customer that resolves and commits only if all its references resolve;
   a sale with a line that names no active medicine fails with
   MEDICINE_NOT_FOUND, and a sale that fails with CUSTOMER_NOT_FOUND or
   MEDICINE_NOT_FOUND leaves stock, sales and customers unchanged. *)
C12_UnresolvedReferenceRejected ==
    [][\A p \in Procs :
          /\ (loc'[p].op = "sale" /\ loc'[p].pc \notin {"idle", "done"}) =>
                 loc'[p].req.customerId \in {NoCustomer} \cup Custs
          /\ (loc[p].op = "sale" /\ loc[p].pc = "commit"
                 /\ loc'[p].outcome = "OK") => ReferencesResolve(loc[p].req)
          /\ (Validated(p) /\ ~ReferencesResolve(loc[p].req)) =>
                 FailedWithoutEffect(p) /\ loc'[p].outcome = "MEDICINE_NOT_FOUND"
          /\ (loc'[p] # loc[p] /\ loc'[p].outcome \in {"CUSTOMER_NOT_FOUND",
                                                        "MEDICINE_NOT_FOUND"}) =>
                 FailedWithoutEffect(p)]_vars

(* C12 amended: as C12, but a sale with a line that names no active
   medicine fails with MEDICINE_NOT_FOUND or, when a line before that one
   asks for more than is in stock, with InsufficientStockError. *)
C12_UnresolvedReferenceFails ==
    [][\A p \in Procs :
          /\ (loc'[p].op = "sale" /\ loc'[p].pc \notin {"idle", "done"}) =>
                 loc'[p].req.customerId \in {NoCustomer} \cup Custs
          /\ (loc[p].op = "sale" /\ loc[p].pc = "commit"
                 /\ loc'[p].outcome = "OK") => ReferencesResolve(loc[p].req)
          /\ (Validated(p) /\ ~ReferencesResolve(loc[p].req)) =>
                 /\ FailedWithoutEffect(p)
                 /\ \/ loc'[p].outcome = "MEDICINE_NOT_FOUND"
                    \/ /\ loc'[p].outcome = "INSUFFICIENT_STOCK"
                       /\ \E i, j \in 1..Len(loc[p].req.items) :
                             /\ i < j
                             /\ OverRequest(loc[p].req.items, i)
                             /\ Unresolved(loc[p].req.items, j)
          /\ (loc'[p] # loc[p] /\ loc'[p].outcome \in {"CUSTOMER_NOT_FOUND",
                                                        "MEDICINE_NOT_FOUND"}) =>
                 FailedWithoutEffect(p)]_vars

(* A sale that names an unknown medicine has failed with
   MEDICINE_NOT_FOUND, and nothing was sold. *)
C12_Witness ==
    \E p \in Procs :
        /\ loc[p].op = "sale" /\ loc[p].pc = "done"
        /\ loc[p].outcome = "MEDICINE_NOT_FOUND"
        /\ sales = <<>>
        /\ \A m \in Meds : stock[m] = InitStock

(* The one change a committed sale may undergo: paid (completed) to
   refunded, with its notes *)
RefundTransition(old, new) ==
    /\ old.paymentStatus = "paid"
    /\ new = [old EXCEPT !.paymentStatus = "refunded", !.notes = new.notes]

(* C13: a committed sale stays in the table, and in every step it is either
   unchanged or goes from completed to refunded with only its status and
   notes changed: amounts, payment method, customer and items never change
   and a refunded sale never changes again. *)
C13_CommittedSaleImmutable ==
    [][/\ Len(sales') >= Len(sales)
       /\ \A i \in 1..Len(sales) :
             sales'[i] = sales[i] \/ RefundTransition(sales[i], sales'[i])]_vars

(* A processRefund call of p that has passed the checks of the sale, its
   status and the amount takes its next step, and no database call fails *)
RefundProceeds(p) ==
    /\ loc[p].op = "refund"
    /\ loc[p].pc = "status"
    /\ loc'[p] # loc[p]
    /\ loc'[p].outcome # "DB_ERROR"

(* C14: a processRefund with an accepted amount, full or partial, succeeds
   and increases the stockQuantity of every medicine by the full quantity
   of the sale's lines of that medicine. *)
C14_RefundRestoresFullQuantity ==
    [][\A p \in Procs :
          RefundProceeds(p) =>
              /\ loc'[p].outcome = "OK"
              /\ \A m \in Meds :
                    stock'[m] = stock[m] + SaleQuantity(sales[loc[p].saleId], m)]_vars

(* C16: a processRefund on a sale with a customer commits and sets the
   customer's loyaltyPoints to max(0, loyaltyPoints - floor(refundAmount / 10))
   and totalPurchases to max(0, totalPurchases - refundAmount); the
   loyaltyPoints and totalPurchases of every customer are never negative. *)
C16_RefundAdjustsLoyalty ==
    /\ [][\A p \in Procs :
             (RefundProceeds(p) /\ sales[loc[p].saleId].customerId # NoCustomer) =>
                 LET c == sales[loc[p].saleId].customerId
                     amount == loc[p].refundAmount.value
                 IN  /\ loc'[p].outcome = "OK"
                     /\ cust'[c].loyaltyPoints =
                            Max(0, cust[c].loyaltyPoints
                                     - (amount \div (PointsDivisor * Cent)))
                     /\ cust'[c].totalPurchases =
                            Max(0, cust[c].totalPurchases - amount)]_vars
    /\ [](\A c \in Custs : cust[c].loyaltyPoints >= 0 /\ cust[c].totalPurchases >= 0)

(* The step of a sale that posts the loyalty of its customer *)
PostsLoyalty(p) ==
    /\ loc[p].op = "sale" /\ loc[p].pc = "loyalty"
    /\ loc'[p].pc = "commit"

(* C15: a sale with a customer attached increases that customer's
   loyaltyPoints by floor(totalAmount / 10) and totalPurchases by
   totalAmount, and a sale without a customer changes no customer. *)
C15_SalePostsLoyalty ==
    [][\A p \in Procs :
         /\ PostsLoyalty(p) =>
              LET c == loc[p].req.customerId
                  total == loc[p].totals.totalAmount
              IN  /\ cust'[c].totalPurchases = cust[c].totalPurchases + total
                  /\ cust'[c].loyaltyPoints =
                         cust[c].loyaltyPoints + (total \div (PointsDivisor * Cent))
         /\ (InSale(p) /\ loc[p].req.customerId = NoCustomer /\ loc'[p] # loc[p])
              => cust' = cust]_vars

(* n / d rounded to the nearest integer, halves up, for n >= 0 *)
RoundHalfUp(n, d) == (2 * n + d) \div (2 * d)

(* The subtotal of the items in exact arithmetic *)
ExactSubtotal(items) ==
    SumSeq([i \in 1..Len(items) |->
               items[i].unitPrice * items[i].quantity - items[i].discount])

(* C17: for line items in whole hundredths _calculateSaleTotals returns
   subtotal = the sum over the lines of unitPrice * quantity - discount,
   taxAmount = 18% of the subtotal rounded half-up to the hundredth and
   totalAmount = subtotal + taxAmount - saleDiscount, and computing it again
   on the same inputs gives the same result. *)
C17_TotalsExact ==
    loc[1].op = "totals" =>
        LET items == loc[1].items
            d == loc[1].req.discountAmount
            t == loc[1].totals
        IN  /\ t.subtotal = ExactSubtotal(items)
            /\ t.taxAmount = RoundHalfUp(ExactSubtotal(items) * TaxRatePct, 100)
            /\ t.totalAmount = t.subtotal + t.taxAmount - d
            /\ _calculateSaleTotals(items, d) = t

(* C18: every committed sale has totalAmount = subtotal + taxAmount -
   discountAmount on its stored fields and totalAmount >= 0, so that no sale
   whose discount exceeds subtotal plus tax is committed. *)
C18_SaleTotalConsistent ==
    \A i \in 1..Len(sales) :
        /\ sales[i].totalAmount =
               sales[i].subtotal + sales[i].taxAmount - sales[i].discountAmount
        /\ sales[i].totalAmount >= 0
        /\ sales[i].discountAmount <= sales[i].subtotal + sales[i].taxAmount

(* The request p gets the response of an adjustment *)
Adjusts(p) == loc'[p].op = "adjust" /\ calls' = calls + 1

(* C20: a stock adjustment of 0 is rejected and leaves the stock of the
   medicine unchanged, and an adjustment a other than 0 on a stock s with
   s + a >= 0 succeeds with the new stock s + a. *)
C20_ZeroAdjustmentRejected ==
    [][\A p \in Procs : Adjusts(p) /\ loc'[p].medicineId \in Meds =>
          LET id == loc'[p].medicineId
              a == loc'[p].adjustment
          IN  /\ a = 0 => loc'[p].outcome # "OK" /\ stock' = stock
              /\ (a # 0 /\ stock[id] + a >= 0) =>
                    /\ loc'[p].outcome = "OK"
                    /\ stock' = [stock EXCEPT ![id] = stock[id] + a]]_vars

(* C21: no sale with a line whose discount exceeds unitPrice * quantity is
   committed, whatever its other lines are, and no committed sale item has
   a negative totalPrice. *)
C21_NegativeLineRejected ==
    \A i \in 1..Len(sales) : \A j \in 1..Len(sales[i].items) :
        /\ sales[i].items[j].discount
               <= sales[i].items[j].unitPrice * sales[i].items[j].quantity
        /\ sales[i].items[j].totalPrice >= 0

(* The processSale call of p commits its sale *)
CommitsSale(p) ==
    /\ loc[p].op = "sale" /\ loc[p].pc = "commit"
    /\ loc'[p].outcome = "OK"

(* C22: the unit price stored for a line of a sale is the unitPrice of the
   request line whenever the request has one, an explicit 0 included, and
   the sellingPrice of the medicine when the request has none. *)
C22_RequestUnitPriceHonoured ==
    [][\A p \in Procs :
          CommitsSale(p) =>
              \A i \in 1..Len(loc[p].req.items) :
                  sales'[Len(sales')].items[i].unitPrice =
                      IF loc[p].req.items[i].unitPrice # NoPrice
                      THEN loc[p].req.items[i].unitPrice
                      ELSE sellingPrice[loc[p].req.items[i].medicineId]]_vars

(* The processRefund call of p has passed the checks of the sale, its status
   and the amount, and has its refund amount *)
RefundAccepted(p) ==
    /\ loc[p].pc \in {"idle", "done"}
    /\ loc'[p].op = "refund" /\ loc'[p].pc = "status"

(* C23: the refund amount processRefund works with is the totalAmount of
   the sale when the caller gives no amount, and the amount the caller gives
   whenever it lies between 0 and the totalAmount, 0 included. *)
C23_SuppliedRefundAmountUsed ==
    [][\A p \in Procs :
          RefundAccepted(p) =>
              LET amount == loc'[p].amount
                  totalAmount == sales[loc'[p].saleId].totalAmount
              IN  /\ amount.value = NoAmount =>
                         loc'[p].refundAmount.value = totalAmount
                  /\ (amount.value >= 0 /\ amount.value <= totalAmount) =>
                         loc'[p].refundAmount = amount]_vars

(* The text s is the beginning of the text t *)
IsPrefix(s, t) == Len(s) <= Len(t) /\ SubSeq(t, 1, Len(s)) = s

(* C24: in every step the notes of a sale before the step are the beginning
   of its notes after the step, whichever of processRefund, deleteSale and
   updateSale takes it. *)
C24_NotesAppendOnly ==
    [][\A i \in 1..Len(sales) : IsPrefix(sales[i].notes, sales'[i].notes)]_vars

(* C25: a committed sale followed at once by a full refund of it leaves the
   stockQuantity of every medicine and the loyaltyPoints and totalPurchases
   of every customer as they were before the sale (here: the first two
   calls of a run, so before the sale is the initial state). *)
C25_SaleRefundRoundTrip ==
    [][\A p \in Procs :
          (/\ RefundProceeds(p)
           /\ calls = 2 /\ Len(sales) = 1
           /\ loc[p].amount.value = NoAmount) =>
              /\ loc'[p].outcome = "OK"
              /\ stock' = [m \in Meds |-> InitStock]
              /\ cust' = [c \in Custs |-> [totalPurchases |-> 0,
                                            loyaltyPoints |-> 0]]]_vars

(* A deleteSale call of p that has passed the checks of the sale and its
   status takes its next step, and no database call fails *)
DeleteProceeds(p) ==
    /\ loc[p].op = "delete"
    /\ loc[p].pc = "status"
    /\ loc'[p] # loc[p]
    /\ loc'[p].outcome # "DB_ERROR"

(* deleteSale of p is called for a sale that is refunded or cancelled *)
DeleteRejected(p) ==
    /\ loc[p].pc \in {"idle", "done"}
    /\ loc'[p].op = "delete"
    /\ loc'[p].saleId <= Len(sales)
    /\ sales[loc'[p].saleId].paymentStatus \in {"refunded", "cancelled"}

(* C26: no step removes a sale or one of its items; deleteSale of a
   completed sale marks it cancelled, adds the quantity of every line back
   to the stock and deducts the totalAmount from the loyalty of its
   customer; deleteSale of a refunded or cancelled sale fails with
   CANNOT_DELETE_SALE and changes nothing. *)
C26_DeleteIsSoft ==
    [][/\ Len(sales') >= Len(sales)
       /\ \A i \in 1..Len(sales) : sales'[i].items = sales[i].items
       /\ \A p \in Procs :
             /\ DeleteProceeds(p) =>
                   LET sale == sales[loc[p].saleId]
                   IN  /\ loc'[p].outcome = "OK"
                       /\ sales'[loc[p].saleId].paymentStatus = "cancelled"
                       /\ \A m \in Meds :
                             stock'[m] = stock[m] + SaleQuantity(sale, m)
                       /\ sale.customerId # NoCustomer =>
                             cust'[sale.customerId] =
                                 _adjustCustomerLoyaltyForRefund(
                                     cust[sale.customerId], sale.totalAmount)
             /\ DeleteRejected(p) =>
                   /\ loc'[p].outcome = "CANNOT_DELETE_SALE"
                   /\ UNCHANGED <<stock, sales, cust>>]_vars

(* Both requests have returned from a processRefund or deleteSale of the
   sale, none of them for its refund amount *)
BothReturned ==
    \A p \in Procs :
        /\ loc[p].pc = "done" /\ loc[p].op \in {"refund", "delete"}
        /\ loc[p].saleId = 1
        /\ loc[p].outcome # "INVALID_REFUND_AMOUNT"

(* C27: of two processRefund or deleteSale calls for one completed sale, at
   most one succeeds, and when both have returned the sale is refunded or
   cancelled and the quantities of its lines are back in the stock, once. *)
C27_OneRefundPerSale ==
    BothReturned =>
        /\ Cardinality({p \in Procs : loc[p].outcome = "OK"}) <= 1
        /\ sales[1].paymentStatus \in {"refunded", "cancelled"}
        /\ \A m \in Meds : stock[m] = InitStock

(* C28: a sale of active medicines whose lines of one medicine ask together
   for more units than the medicine has fails with InsufficientStockError,
   and a sale that commits decreases the stockQuantity of every medicine by
   the sum of the quantities of its lines of that medicine. *)
C28_DuplicateLinesSummed ==
    [][\A p \in Procs :
          /\ (/\ Validated(p)
              /\ \A i \in 1..Len(loc[p].req.items) :
                     loc[p].req.items[i].medicineId \in Meds
              /\ \E m \in Meds : SaleQuantity(loc[p].req, m) > stock[m]) =>
                 loc'[p].outcome = "INSUFFICIENT_STOCK"
          /\ CommitsSale(p) =>
                 \A m \in Meds :
                     stock'[m] = stock[m] - SaleQuantity(loc[p].req, m)]_vars

(* C29: a processSale or processRefund call that throws has committed
   nothing: the stockQuantity of every medicine, the number of sales and
   the loyaltyPoints and totalPurchases of every customer are what they
   were when the call started (one request at a time). *)
C29_ThrowMeansNothingCommitted ==
    [][\A p \in Procs :
          (/\ loc[p].op \in {"sale", "refund"}
           /\ Returns(p)
           /\ loc'[p].outcome # "OK") =>
              Snapshot' = loc[p].pre]_vars

(* The two requests have each made one processSale call for the customer
   c, both calls have committed and returned, and no other call was made *)
BothSalesCommitted(c) ==
    /\ calls = 2 /\ Len(sales) = 2
    /\ \A p \in Procs :
          loc[p].pc = "done" /\ loc[p].op = "sale" /\ loc[p].outcome = "OK"
    /\ \A i \in 1..2 : sales[i].customerId = c

(* C30: when two processSale calls for the same customer, concurrent or
   not, have both committed, the loyaltyPoints and totalPurchases of the
   customer hold the postings of both sales. *)
C30_BothPostingsKept ==
    \A c \in Custs :
        BothSalesCommitted(c) =>
            cust[c] = updatePurchaseTotal(
                          updatePurchaseTotal(
                              [totalPurchases |-> 0, loyaltyPoints |-> 0],
                              sales[1].totalAmount),
                          sales[2].totalAmount)

====
